---------------------------- MODULE Spec2Model ----------------------------
(***************************************************************************)
(* A model of node-dijkstra (src/dist/dijkstra.js): the Graph class with   *)
(* its adjacency Map, addNode / populateMap / validateNode, the            *)
(* PriorityQueue that serves as the frontier, and Graph.path run one loop  *)
(* iteration and one neighbour callback at a time.                         *)
(***************************************************************************)
EXTENDS Integers, Sequences, FiniteSets, TLC

\* ------------------------------------------------------------------ bounds

\* Largest edge cost a caller passes; costs range over 0..MaxCost.
MaxCost == 1

\* Largest number of edges the graph holds (over all nodes' neighbour Maps).
MaxEdges == 3

\* Largest priority handed to PriorityQueue.set when the queue is driven alone.
MaxPriority == 2

\* Largest number of properties of the neighbors object a caller hands to
\* addNode when costs of every kind are tried.
MaxNeighbors == 2

\* Largest number of entries the graph holds over all its neighbours Maps when
\* costs of every kind are tried.
MaxStored == 1

\* The node names callers use.
Nodes == {"A", "B", "C"}

\* ------------------------------------------------------- JavaScript values

\* A JavaScript value as a caller can pass it: t is its type tag, n the number
\* (of a number or a boolean), s the text of a string, o the own enumerable
\* properties of an object in Object.keys order, as <<[key, value], ...>>.
JsNum(k) == [t |-> "num", n |-> k, s |-> "", o |-> <<>>]
JsStr(x) == [t |-> "str", n |-> 0, s |-> x, o |-> <<>>]
JsNull == [t |-> "null", n |-> 0, s |-> "", o |-> <<>>]
JsUndefined == [t |-> "undef", n |-> 0, s |-> "", o |-> <<>>]
JsTrue == [t |-> "bool", n |-> 1, s |-> "", o |-> <<>>]
JsObj(props) == [t |-> "obj", n |-> 0, s |-> "", o |-> props]

\* A JavaScript number: nan is TRUE for NaN, else n is the value.
NaN == [nan |-> TRUE, n |-> 0]
Num(k) == [nan |-> FALSE, n |-> k]

\* Number(string) for the strings in use: a decimal numeral is its value, the
\* empty string is 0, anything else is NaN.
StringToNumber(x) ==
    CASE x = "" -> Num(0)
      [] x = "0" -> Num(0)
      [] x = "1" -> Num(1)
      [] x = "2" -> Num(2)
      [] OTHER -> NaN

\* Number(value) for a value that is not an object.
ToNumber(v) ==
    CASE v.t = "num" -> Num(v.n)
      [] v.t = "str" -> StringToNumber(v.s)
      [] v.t = "null" -> Num(0)
      [] v.t = "bool" -> Num(v.n)
      [] OTHER -> NaN

\* ------------------------------------------------------------ Map helpers

\* A Map is the function from the keys it holds to their values. A Map's
\* iteration order (the order its keys were inserted in) is left open: forEach
\* may visit the entries in any order.
NoEntries == [k \in {} |-> k]
Put(f, k, v) == (k :> v) @@ f

\* A value stored in a Map by populateMap: a validated cost (t = "num", in n)
\* or a nested Map (t = "map", in m).
CostValue(k) == [t |-> "num", n |-> k, m |-> NoEntries]
NestedMap(mm) == [t |-> "map", n |-> 0, m |-> mm]

\* Object.keys(object) and object[key], an object being <<[key, value], ...>>
ObjectKeys(object) == [i \in 1..Len(object) |-> object[i].key]
Property(object, key) == object[CHOOSE i \in 1..Len(object) : object[i].key = key].value

\* ------------------------------------------------- validateNode, populateMap

\* A call's outcome: threw is TRUE when it raised the TypeError.
Threw == [threw |-> TRUE, value |-> CostValue(0)]
Returned(v) == [threw |-> FALSE, value |-> v]

validateNode(cost) ==
    LET c == ToNumber(cost)
    IN  IF c.nan THEN Threw
        ELSE IF c.n < 0 THEN Threw
        ELSE Returned(CostValue(c.n))

RECURSIVE populateMap(_, _, _)
populateMap(map, object, keys) ==
    IF keys = <<>> THEN Returned(NestedMap(map))
    ELSE LET key == Head(keys)
             value == Property(object, key)
             stored == IF value.t = "obj"
                       THEN populateMap(NoEntries, value.o, ObjectKeys(value.o))
                       ELSE validateNode(value)
         IN  IF stored.threw THEN Threw
             ELSE populateMap(Put(map, key, stored.value), object, Tail(keys))

\* --------------------------------------------------------- PriorityQueue

\* new PriorityQueue()
NewQueue == [_keys |-> {}, _queue |-> <<>>]

\* The orders Array.prototype.sort may leave the queue in under the comparator
\* a.priority - b.priority: the entries by ascending priority, entries of equal
\* priority in any order (the engine's sort need not be stable).
_sort(queue) ==
    {[i \in 1..Len(queue) |-> queue[p[i]]] :
        p \in {q \in [1..Len(queue) -> 1..Len(queue)] :
                  /\ \A i, j \in 1..Len(queue) : i # j => q[i] # q[j]
                  /\ \A i, j \in 1..Len(queue) :
                        i < j => queue[q[i]].priority <= queue[q[j]].priority}}

\* set without the _keys lookup: every call pushes a new entry.
setPush(q, key, priority) ==
    IF priority.nan THEN {[threw |-> TRUE, queue |-> q]}
    ELSE {[threw |-> FALSE, queue |-> [_keys |-> q._keys \cup {key}, _queue |-> s]] :
             s \in _sort(Append(q._queue, [key |-> key, priority |-> priority.n]))}

\* PriorityQueue.set(key, priority), priority being Number(priority) already:
\* the outcomes it may have, each [threw, queue]. NaN raises the TypeError
\* before the queue is touched.
set(q, key, priority) ==
    IF priority.nan THEN {[threw |-> TRUE, queue |-> q]}
    ELSE LET queue == IF key \notin q._keys
                      THEN Append(q._queue, [key |-> key, priority |-> priority.n])
                      ELSE [i \in 1..Len(q._queue) |->
                               IF q._queue[i].key = key
                               THEN [key |-> key, priority |-> priority.n]
                               ELSE q._queue[i]]
         IN  {[threw |-> FALSE, queue |-> [_keys |-> q._keys \cup {key}, _queue |-> s]] :
                 s \in _sort(queue)}

\* PriorityQueue.next(): the element returned and the queue left.
next(q) ==
    [element |-> Head(q._queue),
     queue |-> [_keys |-> q._keys \ {Head(q._queue).key}, _queue |-> Tail(q._queue)]]

isEmpty(q) == Len(q._queue) = 0
has(q, key) == key \in q._keys
get(q, key) == q._queue[CHOOSE i \in 1..Len(q._queue) : q._queue[i].key = key]

\* ------------------------------------------------------------ path helpers

\* The options argument of path: t is its type, and trim, reverse, cost are
\* the truthiness of those own properties when it is a plain object.
OptUndefined == [t |-> "undef", trim |-> FALSE, reverse |-> FALSE, cost |-> FALSE]
OptObj(trim, reverse, cost) == [t |-> "obj", trim |-> trim, reverse |-> reverse, cost |-> cost]
OptStr == [t |-> "str", trim |-> FALSE, reverse |-> FALSE, cost |-> FALSE]
OptNum == [t |-> "num", trim |-> FALSE, reverse |-> FALSE, cost |-> FALSE]
OptArr == [t |-> "arr", trim |-> FALSE, reverse |-> FALSE, cost |-> FALSE]

\* options = options || {}
OrEmpty(o) == IF o.t = "undef" THEN OptObj(FALSE, FALSE, FALSE) ELSE o

\* Truthiness of own properties only, as if options were always a plain object.
TruthyOwn(o, prop) ==
    /\ o.t = "obj"
    /\ CASE prop = "trim" -> o.trim
         [] prop = "reverse" -> o.reverse
         [] OTHER -> o.cost

\* The truthiness of options.<prop>: an own property of a plain object; on a
\* string, trim is String.prototype.trim; on an array, reverse is
\* Array.prototype.reverse; a number has none of the three.
Truthy(o, prop) ==
    CASE o.t = "obj" -> (CASE prop = "trim" -> o.trim
                           [] prop = "reverse" -> o.reverse
                           [] OTHER -> o.cost)
      [] o.t = "str" -> prop = "trim"
      [] o.t = "arr" -> prop = "reverse"
      [] OTHER -> FALSE

\* What path returns: null (t = "null"), an array (t = "array"), or the object
\* {path, cost} (t = "record", with isNull telling whether its path is null).
\* t = "none" stands for no path call having returned.
NoResult == [t |-> "none", isNull |-> TRUE, path |-> <<>>, cost |-> 0]
ResultNull == [t |-> "null", isNull |-> TRUE, path |-> <<>>, cost |-> 0]
ResultArray(p) == [t |-> "array", isNull |-> FALSE, path |-> p, cost |-> 0]
ResultRecord(isNull, p, c) == [t |-> "record", isNull |-> isNull, path |-> p, cost |-> c]

\* The no-path marker without the cost branch.
NoPathBare(o) == ResultNull

\* if (options.cost) return { path: null, cost: 0 }; return null
NoPath(o) == IF Truthy(o, "cost") THEN ResultRecord(TRUE, <<>>, 0) ELSE ResultNull

\* Array.prototype.reverse
Reverse(s) == [i \in 1..Len(s) |-> s[Len(s) + 1 - i]]

\* while (previous.has(_nodeKey)) { path.push(_nodeKey); _nodeKey = previous.get(_nodeKey) }
RECURSIVE WalkBack(_, _)
WalkBack(prev, nodeKey) ==
    IF nodeKey \in DOMAIN prev
    THEN <<nodeKey>> \o WalkBack(prev, prev[nodeKey])
    ELSE <<>>

\* The trim step forgetting to add the origin, and the trim step dropping
\* nothing where it should shift the goal off.
TrimNoOrigin(p, s, o) == IF Truthy(o, "trim") THEN Tail(p) ELSE p
TrimKeepsGoal(p, s, o) == IF Truthy(o, "trim") THEN p ELSE Append(p, s)

\* The trim step on the goal-to-origin array: shift() when trimming, else
\* concat([start]).
Trim(p, s, o) == IF Truthy(o, "trim") THEN Tail(p) ELSE Append(p, s)

\* The reverse step ignoring options.reverse.
OrderKept(p, o) == Reverse(p)

\* The reverse step: reversed unless options.reverse.
Order(p, o) == IF ~Truthy(o, "reverse") THEN Reverse(p) ELSE p

\* The value path returns once the loop has ended.
PathResult(p, cost, s, o) ==
    IF Len(p) = 0 THEN NoPath(o)
    ELSE LET shaped == Order(Trim(p, s, o), o)
         IN  IF Truthy(o, "cost") THEN ResultRecord(FALSE, shaped, cost)
             ELSE ResultArray(shaped)

\* node.priority + _cost, then Number() of it: a nested Map concatenates into a
\* string that is not a numeral.
Plus(priority, value) == IF value.t = "num" THEN Num(priority + value.n) ELSE NaN

\* The comparison that never finds a cheaper cost.
LessNever(a, b) == FALSE

\* a < b for a JavaScript number a and a finite b
Less(a, b) == ~a.nan /\ a.n < b

\* --------------------------------------------------------------- the state

VARIABLES
    graph,      \* this.graph: node name -> what populateMap stored for it
    call,       \* the public call made last and its arguments
    err,        \* "TypeError" when the last call threw, else "none"
    pc,         \* where the path call stands
    start,      \* path's start argument
    goal,       \* path's goal argument
    options,    \* path's options after options || {}
    explored,   \* the explored Set
    frontier,   \* the frontier PriorityQueue
    previous,   \* the previous Map
    path,       \* the path array
    totalCost,  \* totalCost
    node,       \* the element frontier.next() returned, while its neighbours are looped
    todo,       \* the neighbours forEach has still to visit
    terminal,   \* how the while loop of the last path call ended
    result      \* what the last path call returned

vars == <<graph, call, err, pc, start, goal, options, explored, frontier, previous,
          path, totalCost, node, todo, terminal, result>>

locals == <<explored, frontier, previous, path, totalCost, node, todo>>

NoNode == [key |-> "", priority |-> 0]
\* The costs among an object's values, nested objects included, that are
\* negative or not numeric: a number below 0, or anything but a number or a
\* decimal numeral.
Numeric(v) == v.t = "num" \/ (v.t = "str" /\ v.s \in {"0", "1", "2"})
RECURSIVE InvalidCosts(_)
InvalidCosts(object) ==
    UNION {IF object[i].value.t = "obj" THEN InvalidCosts(object[i].value.o)
           ELSE IF ~Numeric(object[i].value) \/ ToNumber(object[i].value).n < 0
           THEN {object[i].value}
           ELSE {} : i \in 1..Len(object)}

\* The record of a public call: op names it; name is addNode's name or set's
\* key; invalid holds the invalid costs among addNode's neighbors; priority is
\* set's priority and had tells whether set found its key in the queue.
NoCall == [op |-> "new", name |-> "", invalid |-> {}, priority |-> JsNum(0), had |-> FALSE]
AddNodeCall(name, neighbors) ==
    [op |-> "addNode", name |-> name, invalid |-> InvalidCosts(neighbors),
     priority |-> JsNum(0), had |-> FALSE]
PathCall == [op |-> "path", name |-> "", invalid |-> {}, priority |-> JsNum(0), had |-> FALSE]
SetCall(key, priority, had) ==
    [op |-> "set", name |-> key, invalid |-> {}, priority |-> priority, had |-> had]
NextCall == [op |-> "next", name |-> "", invalid |-> {}, priority |-> JsNum(0), had |-> FALSE]

\* The locals of path outside a call.
NoLocals ==
    /\ explored' = {}
    /\ frontier' = NewQueue
    /\ previous' = NoEntries
    /\ path' = <<>>
    /\ totalCost' = 0
    /\ node' = NoNode
    /\ todo' = {}

NoQuery ==
    /\ start' = ""
    /\ goal' = ""
    /\ options' = OptUndefined
    /\ terminal' = "none"
    /\ result' = NoResult

\* new Graph(graph): the Map the constructor fills, or the TypeError.
Graph(data) ==
    IF data.t = "undef" THEN Returned(NestedMap(NoEntries))
    ELSE populateMap(NoEntries, data.o, ObjectKeys(data.o))

\* The state a constructed Graph starts in.
Constructed(data) ==
    /\ ~Graph(data).threw
    /\ graph = Graph(data).value.m
    /\ call = NoCall
    /\ err = "none"
    /\ pc = "idle"
    /\ start = ""
    /\ goal = ""
    /\ options = OptUndefined
    /\ explored = {}
    /\ frontier = NewQueue
    /\ previous = NoEntries
    /\ path = <<>>
    /\ totalCost = 0
    /\ node = NoNode
    /\ todo = {}
    /\ terminal = "none"
    /\ result = NoResult

\* ------------------------------------------------------------- the actions

\* Graph.addNode(name, neighbors)
addNode(name, neighbors) ==
    /\ pc \in {"idle", "done"}
    /\ LET _neighbors == populateMap(NoEntries, neighbors, ObjectKeys(neighbors))
       IN  IF _neighbors.threw
           THEN /\ err' = "TypeError"
                /\ graph' = graph
           ELSE /\ err' = "none"
                /\ graph' = Put(graph, name, _neighbors.value)
    /\ call' = AddNodeCall(name, neighbors)
    /\ pc' = "idle"
    /\ NoQuery
    /\ NoLocals

\* Graph.path(start, goal, options) up to the while loop.
pathBegin(s, g, o) ==
    /\ pc \in {"idle", "done"}
    /\ call' = PathCall
    /\ err' = "none"
    /\ start' = s
    /\ goal' = g
    /\ options' = OrEmpty(o)
    /\ terminal' = "none"
    /\ graph' = graph
    /\ IF Cardinality(DOMAIN graph) = 0
       THEN /\ result' = NoPath(OrEmpty(o))
            /\ pc' = "done"
            /\ NoLocals
       ELSE /\ result' = NoResult
            /\ pc' = "seeded"
            /\ explored' = {}
            /\ \E r \in set(NewQueue, s, Num(0)) : frontier' = r.queue
            /\ previous' = NoEntries
            /\ path' = <<>>
            /\ totalCost' = 0
            /\ node' = NoNode
            /\ todo' = {}

\* this.graph.get(key) || new Map(), then forEach: the keys it will visit, or
\* the TypeError of calling forEach on a number.
Neighbors(key) ==
    IF key \notin DOMAIN graph THEN Returned(NestedMap(NoEntries))
    ELSE IF graph[key].t = "map" THEN Returned(graph[key])
    ELSE IF graph[key].n = 0 THEN Returned(NestedMap(NoEntries))
    ELSE Threw

\* path giving up on a TypeError.
pathThrows ==
    /\ err' = "TypeError"
    /\ pc' = "done"
    /\ result' = NoResult
    /\ terminal' = "none"
    /\ NoLocals

\* One pass of the while loop up to neighbors.forEach: frontier.next(), the
\* goal test with the walk along previous, explored.add.
loopNext ==
    /\ pc \in {"seeded", "iterating"}
    /\ todo = {}
    /\ ~isEmpty(frontier)
    /\ LET taken == next(frontier)
           element == taken.element
           neighbors == Neighbors(element.key)
       IN  IF element.key = goal
           THEN /\ frontier' = taken.queue
                /\ totalCost' = element.priority
                /\ path' = WalkBack(previous, element.key)
                /\ pc' = "found"
                /\ terminal' = "found"
                /\ UNCHANGED <<explored, node, todo, previous, err, result>>
           ELSE IF neighbors.threw THEN pathThrows
           ELSE /\ frontier' = taken.queue
                /\ explored' = explored \cup {element.key}
                /\ todo' = DOMAIN neighbors.value.m
                /\ node' = IF DOMAIN neighbors.value.m = {} THEN NoNode ELSE element
                /\ pc' = "iterating"
                /\ UNCHANGED <<totalCost, path, terminal, previous, err, result>>
    /\ UNCHANGED <<graph, call, start, goal, options>>

\* The explored check that never skips a neighbour.
exploredHasNot(set_, key) == FALSE

\* explored.has(key)
exploredHas(set_, key) == key \in set_

\* The forEach callback on one of the neighbours still to visit.
relax ==
    /\ pc = "iterating"
    /\ todo # {}
    /\ \E _node \in todo :
          LET _cost == graph[node.key].m[_node]
              nodeCost == Plus(node.priority, _cost)
              rest == /\ todo' = todo \ {_node}
                      /\ node' = IF todo = {_node} THEN NoNode ELSE node
                      /\ UNCHANGED <<pc, err, result, terminal, explored, path, totalCost>>
          IN  IF exploredHas(explored, _node)
              THEN rest /\ UNCHANGED <<frontier, previous>>
              ELSE IF ~has(frontier, _node) \/ Less(nodeCost, get(frontier, _node).priority)
              THEN \E r \in set(frontier, _node, nodeCost) :
                       IF r.threw THEN pathThrows
                       ELSE /\ previous' = Put(previous, _node, node.key)
                            /\ frontier' = r.queue
                            /\ rest
              ELSE rest /\ UNCHANGED <<frontier, previous>>
    /\ UNCHANGED <<graph, call, start, goal, options>>

\* The while condition failing: the frontier is empty.
loopEnd ==
    /\ pc \in {"seeded", "iterating"}
    /\ todo = {}
    /\ isEmpty(frontier)
    /\ pc' = "exhausted"
    /\ terminal' = "exhausted"
    /\ UNCHANGED <<graph, call, err, start, goal, options, result, locals>>

\* After the loop: the null check, trim, reverse, cost; path returns.
pathReturn ==
    /\ pc \in {"found", "exhausted"}
    /\ result' = PathResult(path, totalCost, start, options)
    /\ pc' = "done"
    /\ NoLocals
    /\ UNCHANGED <<graph, call, err, start, goal, options, terminal>>

\* frontier.set(key, priority) and frontier.next() called on a queue directly.
queueSet(key, priority) ==
    /\ pc = "idle"
    /\ \E r \in set(frontier, key, ToNumber(priority)) :
          /\ frontier' = r.queue
          /\ err' = IF r.threw THEN "TypeError" ELSE "none"
    /\ call' = SetCall(key, priority, has(frontier, key))
    /\ UNCHANGED <<graph, pc, start, goal, options, explored, previous, path, totalCost,
                   node, todo, terminal, result>>

queueNext ==
    /\ pc = "idle"
    /\ IF isEmpty(frontier)
       THEN /\ err' = "TypeError"
            /\ frontier' = frontier
       ELSE /\ err' = "none"
            /\ frontier' = next(frontier).queue
    /\ call' = NextCall
    /\ UNCHANGED <<graph, pc, start, goal, options, explored, previous, path, totalCost,
                   node, todo, terminal, result>>

\* ------------------------------------------------------------ the inputs

Costs == 0..MaxCost

\* The elements of a finite set in some order.
RECURSIVE Listed(_)
Listed(S) ==
    IF S = {} THEN <<>>
    ELSE LET x == CHOOSE y \in S : TRUE IN <<x>> \o Listed(S \ {x})

Edges == Nodes \X Nodes

\* The object { node: { target: cost, ... }, ... } with an entry for each node
\* of P and the edges E, costing w.
GraphObject(P, E, w) ==
    LET ks == Listed(P)
        targets(k) == Listed({t \in Nodes : <<k, t>> \in E})
        inner(k) == [i \in 1..Len(targets(k)) |->
                        [key |-> targets(k)[i], value |-> JsNum(w[<<k, targets(k)[i]>>])]]
    IN  JsObj([i \in 1..Len(ks) |-> [key |-> ks[i], value |-> JsObj(inner(ks[i]))]])

\* The edge sets of at most n edges, and for an edge set the sets of nodes a
\* caller may list: a node without outgoing edges is listed with {} or left out.
EdgeSets(n) == {F \in SUBSET Edges : Cardinality(F) <= n}
Listings(E) == {Q \in SUBSET Nodes : \A e \in E : e[1] \in Q}

\* The options of a plain query: none, and { cost: true }.
SearchOptions == {OptUndefined, OptObj(FALSE, FALSE, TRUE)}

\* new Graph(data) for a graph of at most MaxEdges edges with costs in Costs.
Init ==
    \E E \in EdgeSets(MaxEdges) : \E P \in Listings(E) : \E w \in [E -> Costs] :
        Constructed(GraphObject(P, E, w))

Next ==
    \/ \E s \in Nodes, g \in Nodes, o \in SearchOptions : pathBegin(s, g, o)
    \/ loopNext
    \/ relax
    \/ loopEnd
    \/ pathReturn

Spec == Init /\ [][Next]_vars

\* Queries with every kind of options argument, on the graphs of at most
\* MaxEdges unit-cost edges.
Flags == {OptObj(t, r, c) : t \in BOOLEAN, r \in BOOLEAN, c \in BOOLEAN}
AllOptions == {OptUndefined, OptStr, OptNum, OptArr} \cup Flags

InitOptions ==
    \E E \in EdgeSets(MaxEdges) :
        Constructed(GraphObject({e[1] : e \in E}, E, [e \in E |-> 1]))

NextOptions ==
    \/ \E s \in Nodes, g \in Nodes, o \in AllOptions : pathBegin(s, g, o)
    \/ loopNext
    \/ relax
    \/ loopEnd
    \/ pathReturn

SpecOptions == InitOptions /\ [][NextOptions]_vars

\* A path call runs to its return without interruption.
FairSpec == Spec /\ WF_vars(loopNext \/ relax \/ loopEnd \/ pathReturn)

\* A PriorityQueue driven directly by set and next.
Priorities == {JsNum(k) : k \in 0..MaxPriority} \cup {JsStr("1"), JsUndefined}

InitQueue == Constructed(JsUndefined)

NextQueue ==
    \/ \E key \in Nodes, priority \in Priorities : queueSet(key, priority)
    \/ queueNext

SpecQueue == InitQueue /\ [][NextQueue]_vars

\* Graphs built by addNode from whatever a caller may pass as a cost.
Leaves == {JsNum(-1), JsNum(1), JsStr("1"), JsStr("abc"), JsNull, JsUndefined}
Groups == {JsObj(<<[key |-> "B", value |-> JsNum(-1)]>>)}

RECURSIVE Objects(_, _, _)
Objects(keys, values, n) ==
    IF n = 0 THEN {<<>>}
    ELSE LET shorter == Objects(keys, values, n - 1)
         IN  shorter \cup
             {Append(o, [key |-> k, value |-> v]) :
                 o \in {x \in shorter : Len(x) = n - 1}, k \in keys, v \in values}

Distinct(o) == \A i, j \in 1..Len(o) : i # j => o[i].key # o[j].key

NeighborObjects == {o \in Objects(Nodes, Leaves \cup Groups, MaxNeighbors) : Distinct(o)}

\* The entries over the neighbours Maps of the nodes S of graph g.
RECURSIVE EntryCount(_, _)
EntryCount(g, S) ==
    IF S = {} THEN 0
    ELSE LET x == CHOOSE y \in S : TRUE
         IN  Cardinality(DOMAIN g[x].m) + EntryCount(g, S \ {x})

\* new Graph() without data, with a number where a node's neighbours belong,
\* and with a nested group where a cost belongs.
InitInput ==
    \E data \in {JsUndefined,
                 JsObj(<<[key |-> "A", value |-> JsNum(1)]>>),
                 JsObj(<<[key |-> "A", value |-> JsNum(0)]>>),
                 JsObj(<<[key |-> "A", value |->
                            JsObj(<<[key |-> "B", value |-> JsObj(<<>>)]>>)]>>)} :
        Constructed(data)

NextInput ==
    \/ \E name \in Nodes, neighbors \in NeighborObjects :
          /\ addNode(name, neighbors)
          /\ EntryCount(graph', DOMAIN graph') <= MaxStored
    \/ \E s \in Nodes, g \in Nodes : pathBegin(s, g, OptObj(FALSE, FALSE, TRUE))
    \/ loopNext
    \/ relax
    \/ loopEnd
    \/ pathReturn

SpecInput == InitInput /\ [][NextInput]_vars

\* ------------------------------------------------- the graph, read directly

\* Every entry of the graph is a neighbours Map whose values are all costs.
FlatGraph ==
    \A k \in DOMAIN graph :
        /\ graph[k].t = "map"
        /\ \A j \in DOMAIN graph[k].m : graph[k].m[j].t = "num"

\* u -> v is an edge of the graph, and what it costs.
HasEdge(u, v) ==
    /\ u \in DOMAIN graph
    /\ graph[u].t = "map"
    /\ v \in DOMAIN graph[u].m
    /\ graph[u].m[v].t = "num"
EdgeCost(u, v) == graph[u].m[v].n

\* More than any route without a repeated node can cost.
Unreachable == Cardinality(Nodes) * (MaxCost + 1)

Least(S) == CHOOSE x \in S : \A y \in S : x <= y

\* The least cost of a route from s to each node along at most k edges
\* (Bellman-Ford), Unreachable when there is none.
RECURSIVE Cheapest(_, _)
Cheapest(s, k) ==
    IF k = 0 THEN [v \in Nodes |-> IF v = s THEN 0 ELSE Unreachable]
    ELSE LET d == Cheapest(s, k - 1)
         IN  [v \in Nodes |->
                 Least({d[v]} \cup {d[u] + EdgeCost(u, v) :
                                      u \in {x \in Nodes : HasEdge(x, v) /\ d[x] < Unreachable}})]

MinCost(s, t) == Cheapest(s, Cardinality(Nodes) - 1)[t]
Route(s, t) == MinCost(s, t) < Unreachable

\* The summed edge costs along a sequence of nodes.
RECURSIVE RouteCost(_)
RouteCost(p) ==
    IF Len(p) < 2 THEN 0 ELSE EdgeCost(p[1], p[2]) + RouteCost(Tail(p))

\* A path call has returned (without throwing).
Returns == pc = "done" /\ call.op = "path" /\ err = "none"
WantsCost == Truthy(options, "cost")

\* ------------------------------------------------------------- the claims

\* C1: on a graph of non-negative costs, for start # goal with goal reachable
\* from start (goal with or without an adjacency entry), path(start, goal,
\* {cost: true}) returns the least summed cost over all routes start -> goal.
C1_MinimumCost ==
    (Returns /\ FlatGraph /\ WantsCost /\ start # goal /\ Route(start, goal))
        => /\ result.t = "record"
           /\ ~result.isNull
           /\ result.cost = MinCost(start, goal)

\* C1's case: the goal has no adjacency entry, a direct edge start -> goal
\* exists, and the cost returned is below that edge's cost.
C1_Witness ==
    /\ Returns /\ WantsCost /\ start # goal
    /\ goal \notin DOMAIN graph
    /\ HasEdge(start, goal)
    /\ result.t = "record" /\ ~result.isNull
    /\ result.cost < EdgeCost(start, goal)

\* C2: on a graph of non-negative costs, a non-null path returned by
\* path(start, goal, {cost: true}) begins at start, ends at goal, steps along
\* edges of the graph only, and its summed edge costs are the cost returned.
C2_PathIsRoute ==
    (Returns /\ FlatGraph /\ WantsCost /\ result.t = "record" /\ ~result.isNull)
        => LET p == result.path
           IN  /\ Len(p) >= 1
               /\ p[1] = start
               /\ p[Len(p)] = goal
               /\ \A i \in 1..(Len(p) - 1) : HasEdge(p[i], p[i + 1])
               /\ RouteCost(p) = result.cost

\* C2's case: a path through an intermediate node was returned.
C2_Witness ==
    /\ Returns /\ WantsCost
    /\ result.t = "record" /\ ~result.isNull
    /\ Len(result.path) = 3
    /\ result.cost > 0

\* C3: on a non-empty graph, path(start, start) without trim returns [start]
\* or [start, start], with cost 0 when the cost is asked for, not the no-path
\* marker.
C3_SelfPath ==
    (Returns /\ DOMAIN graph # {} /\ start = goal /\ ~Truthy(options, "trim"))
        => /\ ~result.isNull
           /\ result.path \in {<<start>>, <<start, start>>}
           /\ WantsCost => (result.t = "record" /\ result.cost = 0)

\* C4: on a graph of non-negative costs with no route from start to goal
\* (either of them with or without an adjacency entry), path does not throw
\* and returns null, or {path: null, cost: 0} when the cost is asked for.
C4_NoRoute ==
    (pc = "done" /\ call.op = "path" /\ FlatGraph /\ ~Route(start, goal))
        => /\ err = "none"
           /\ result = IF WantsCost THEN ResultRecord(TRUE, <<>>, 0) ELSE ResultNull

\* C4's case: start has outgoing edges, the goal has no adjacency entry and is
\* never reached, and the loop ran the frontier empty.
C4_Witness ==
    /\ Returns /\ ~Route(start, goal)
    /\ \E v \in Nodes : HasEdge(start, v)
    /\ goal \notin DOMAIN graph
    /\ terminal = "exhausted"
    /\ result = ResultNull

\* The elements of a sequence.
Elements(p) == {p[i] : i \in 1..Len(p)}

\* What path would return from here under the flags trim t, reverse r, cost c.
Shaped(t, r, c) == PathResult(path, totalCost, start, OptObj(t, r, c))

\* C5: for a query that finds a path, the result with trim is the result
\* without trim less its first and its last element (start and goal), so 2
\* shorter, and has neither start nor goal at its ends.
C5_TrimDropsBothEnds ==
    /\ (pc = "found" /\ Len(path) > 0)
          => \A r \in BOOLEAN, c \in BOOLEAN :
                LET trimmed == Shaped(TRUE, r, c).path
                    whole == Shaped(FALSE, r, c).path
                IN  /\ Len(trimmed) = Len(whole) - 2
                    /\ trimmed = SubSeq(whole, 2, Len(whole) - 1)
                    /\ {whole[1], whole[Len(whole)]} = {start, goal}
    /\ (Returns /\ options.t = "obj" /\ options.trim /\ ~result.isNull)
          => /\ start \notin Elements(result.path)
             /\ goal \notin Elements(result.path)

\* C5's case: a trimmed query returned the one node between start and goal.
C5_Witness ==
    /\ Returns /\ options.t = "obj" /\ options.trim /\ ~options.reverse
    /\ result.t = "array"
    /\ Len(result.path) = 1
    /\ HasEdge(start, result.path[1]) /\ HasEdge(result.path[1], goal)

\* C6: for the same graph, start, goal and trim, the result with reverse is
\* the result without it read backwards; without reverse the order is start
\* to goal, with it goal to start.
C6_ReverseIsMirror ==
    /\ pc \in {"found", "exhausted"}
          => \A t \in BOOLEAN, c \in BOOLEAN :
                LET back == Shaped(t, TRUE, c)
                    forth == Shaped(t, FALSE, c)
                IN  /\ back.isNull = forth.isNull
                    /\ back.path = [i \in 1..Len(forth.path) |->
                                       forth.path[Len(forth.path) + 1 - i]]
    /\ (Returns /\ options.t = "obj" /\ ~options.trim /\ ~result.isNull)
          => IF options.reverse
             THEN result.path[1] = goal /\ result.path[Len(result.path)] = start
             ELSE result.path[1] = start /\ result.path[Len(result.path)] = goal

\* C6's case: a reversed, untrimmed query returned goal, a node between, start.
C6_Witness ==
    /\ Returns /\ options.t = "obj" /\ options.reverse /\ ~options.trim
    /\ result.t = "array"
    /\ Len(result.path) = 3
    /\ result.path[1] = goal /\ result.path[3] = start

\* The options argument is no configuration object: a string, a number, an array.
OddOptions == options.t \in {"str", "num", "arr"}

C9_AlwaysTerminal ==
    Returns => terminal \in {"found", "exhausted"}

Running == pc \in {"seeded", "iterating"}
ExtractsGoal ==
    Running /\ todo = {} /\ ~isEmpty(frontier) /\ next(frontier).element.key = goal
RunsDry == Running /\ todo = {} /\ isEmpty(frontier)

\* What is left to do: the nodes not yet explored, then the neighbours not yet
\* visited.
Variant == Cardinality(Nodes \ explored) * (Cardinality(Nodes) + 1) + Cardinality(todo)

\* C9 amended: on a graph with at least one node entry and non-negative costs,
\* every path query ends in exactly one of found (entered exactly by the step
\* that extracts goal from the frontier) and exhausted (entered exactly by the
\* step that finds the frontier empty, goal never extracted); every step of the
\* loop lessens what is left to do, so the loop cannot run forever; and the
\* only step from found or exhausted is the return. On a graph without
\* entries path returns the no-path marker before the loop.
C9_Terminates ==
    /\ []((Returns /\ FlatGraph) =>
             IF DOMAIN graph = {} THEN terminal = "none" /\ result.isNull
             ELSE terminal \in {"found", "exhausted"})
    /\ [][/\ pc' = "found" <=> ExtractsGoal
          /\ pc' = "exhausted" <=> RunsDry
          /\ RunsDry => goal \notin explored
          /\ pc \in {"found", "exhausted"} => (pc' = "done" /\ terminal' = pc)
          /\ (Running /\ pc' \notin {"found", "exhausted"})
                => (Running' /\ Variant' < Variant)]_vars
    /\ (pc = "seeded") ~> (pc \in {"found", "exhausted"})

\* C9's case: the loop ended after exploring two nodes and then extracting
\* the goal.
C9_Witness ==
    /\ pc = "found"
    /\ Cardinality(explored) = 2
    /\ Len(path) = 2

\* The queue holds one entry per key, and _keys is exactly its keys.
QueueInv(q) ==
    /\ \A i, j \in 1..Len(q._queue) : i # j => q._queue[i].key # q._queue[j].key
    /\ q._keys = {q._queue[i].key : i \in 1..Len(q._queue)}

\* C10: after any sequence of set and next the queue holds at most one entry
\* per key and _keys is exactly the keys queued; set on a key already queued
\* gives that entry the new priority and leaves the number of entries as it was.
C10_OneEntryPerKey ==
    /\ [](QueueInv(frontier))
    /\ [][(call'.op = "set" /\ has(frontier, call'.name) /\ err' = "none")
             => /\ Len(frontier'._queue) = Len(frontier._queue)
                /\ get(frontier', call'.name).priority = ToNumber(call'.priority).n]_vars

\* C10's case: set was called on a key already queued among others, and the
\* key now carries the priority given.
C10_Witness ==
    /\ call.op = "set" /\ call.had /\ err = "none"
    /\ Len(frontier._queue) = Cardinality(Nodes)
    /\ get(frontier, call.name).priority = ToNumber(call.priority).n
    /\ frontier._queue[1].key # call.name

\* C7 as stated: addNode fails whenever a cost among its neighbors is negative
\* or not numeric.
C7_InvalidCostFails ==
    (call.op = "addNode" /\ call.invalid # {}) => err = "TypeError"

\* The keys of the entries the frontier holds.
QueuedKeys == {frontier._queue[i].key : i \in 1..Len(frontier._queue)}

\* frontier.next() is about to run: the while condition holds.
Extracts == Running /\ todo = {} /\ ~isEmpty(frontier)

\* C11: during a path query no explored node is in the frontier; a step never
\* puts an explored node into the frontier; the node a pass of the loop
\* extracts was not explored before and, unless it is the goal, is explored
\* after, and explored only grows while the query runs: so each node is
\* extracted at most once per query.
C11_ExploredOffFrontier ==
    /\ [](explored \cap QueuedKeys = {})
    /\ [][/\ (QueuedKeys' \ QueuedKeys) \cap (explored \cup explored') = {}
          /\ (Extracts /\ err' = "none") =>
                LET key == next(frontier).element.key
                IN  /\ key \notin explored
                    /\ key \notin QueuedKeys'
                    /\ key # goal => key \in explored'
          /\ (Running /\ Running') => explored \subseteq explored']_vars

\* C11's case: two nodes are explored, the forEach over the second one's
\* neighbours has passed an edge back to the first, which the explored check
\* skipped: it has no entry in the frontier and none in previous.
C11_Witness ==
    /\ pc = "iterating"
    /\ Cardinality(explored) = 2
    /\ node.key \in explored
    /\ \E k \in explored \ {node.key} :
          /\ k \in DOMAIN graph[node.key].m
          /\ k \notin todo
          /\ k \notin QueuedKeys
          /\ k \notin DOMAIN previous

=============================================================================
